---------------------------- MODULE Spec2Model ----------------------------
(***************************************************************************)
(* Hexary Merkle-Patricia trie of mpt/MerklePatriciaTrie.go (the clustered *)
(* trie of cmpt/ClusteredMerklePatriciaTrie.go is the same code, line for  *)
(* line, over cluster-prefix keys).                                        *)
(*                                                                         *)
(* Nodes live in a heap (a sequence of records, a pointer is an index, NIL *)
(* is 0), because insert and resolveAndTrack overwrite fields of nodes     *)
(* they do not own.  Byte slices are sequences of integers.  A slice of    *)
(* the key being inserted is passed by value: the one write through an     *)
(* alias of its backing array (append in nibblesToKey on a slice with      *)
(* spare capacity) is applied where it happens, see AppendZeroInPlace.     *)
(***************************************************************************)
EXTENDS Integers, Sequences, FiniteSets, TLC

\* ------------------------------------------------------------------ bounds
MaxInserts == 3
MaxKeyLen == 2
MaxOtherTargets == 1
MaxQueries == 1
MaxCodecLen == 3
MaxMerkleTxs == 5
MaxKLeaves == 18
MaxKTargets == 2
MaxDeepInserts == 5
MaxSetPaths == 1

\* the bytes keys are made of: 0x01, 0x10, 0x11
ByteVals == {1, 16, 17}
\* value payloads
Values == {<<170>>, <<187>>}
\* the payload of the tries proof costs are computed on
CostValue == <<170>>

RECURSIVE ByteSeqs(_)
ByteSeqs(n) ==
    IF n = 0 THEN {<< >>}
    ELSE LET S == ByteSeqs(n - 1)
         IN  S \cup {Append(s, b) : s \in {t \in S : Len(t) = n - 1}, b \in ByteVals}

\* the bytes the codec is run on: both nibbles zero, one zero, both set, 0xFF
CodecBytes == {0, 15, 16, 171, 240, 255}
RECURSIVE CodecKeys(_)
CodecKeys(n) ==
    IF n = 0 THEN {<< >>}
    ELSE LET S == CodecKeys(n - 1)
         IN  S \cup {Append(s, b) : s \in {t \in S : Len(t) = n - 1}, b \in CodecBytes}

\* the keys Insert is called with; the empty key is among them
Keys == ByteSeqs(MaxKeyLen)
NonEmptyKeys == Keys \ {<< >>}

\* ------------------------------------------------------------- key codec
NIL == 0
NibbleBase == 16
ByteRange == 256
ValueSlot == 16

Tail0(s, n) == SubSeq(s, n + 1, Len(s))      \* s[n:]
Head0(s, n) == SubSeq(s, 1, n)               \* s[:n]

RECURSIVE keyToNibbles(_)
\* keyToNibbles without the mask of the low nibble
keyToNibblesUnmasked(key) ==
    IF key = << >> THEN << >>
    ELSE <<key[1] \div NibbleBase, key[1]>> \o keyToNibbles(Tail(key))

keyToNibbles(key) ==
    IF key = << >> THEN << >>
    ELSE <<key[1] \div NibbleBase, key[1] % NibbleBase>> \o keyToNibbles(Tail(key))

\* nibblesToKey with the two nibbles of a byte in the other order
RECURSIVE PackNibbles(_)
PackNibblesLowFirst(nibbles) ==
    IF nibbles = << >> THEN << >>
    ELSE <<((nibbles[2] * NibbleBase) % ByteRange) + nibbles[1]>>
         \o PackNibbles(Tail(Tail(nibbles)))

\* key[i] = (nibbles[i*2] << 4) | nibbles[i*2+1] on bytes: the shift wraps at
\* ByteRange, and the low four bits of the shifted byte are zero, so for a
\* second nibble below NibbleBase the bitwise or is a sum
PackNibbles(nibbles) ==
    IF nibbles = << >> THEN << >>
    ELSE <<((nibbles[1] * NibbleBase) % ByteRange) + nibbles[2]>>
         \o PackNibbles(Tail(Tail(nibbles)))

nibblesToKey(nibbles) ==
    PackNibbles(IF Len(nibbles) % 2 # 0 THEN Append(nibbles, 0) ELSE nibbles)

\* nibblesToKey(key[:m]) for a slice key that reaches the end of its backing
\* array: key[:m] keeps the capacity of key, so for odd m < len(key) the
\* append(nibbles, 0) of nibblesToKey stores 0 in key[m] instead of copying.
\* This is key as every holder of the array sees it afterwards.
AppendZeroInPlace(key, m) ==
    IF m % 2 # 0 /\ m < Len(key) THEN [key EXCEPT ![m + 1] = 0] ELSE key

RECURSIVE prefixLenFrom(_, _, _)
prefixLenFrom(a, b, i) ==
    IF i < Len(a) /\ i < Len(b) /\ a[i + 1] = b[i + 1]
    THEN prefixLenFrom(a, b, i + 1)
    ELSE i

prefixLen(a, b) == prefixLenFrom(a, b, 0)

\* ------------------------------------------------------------- node model
\* common.Hash{} is the empty sequence; a Keccak digest is its input between
\* two marks, so two digests are equal exactly when their inputs are
ZeroHash == << >>
HashOpen == 0 - 1
HashClose == 0 - 2
Keccak256Hash(data) == <<HashOpen>> \o data \o <<HashClose>>

\* Children [17]TrieNode: slot i is element i + 1 of the tuple
NoChildren == [i \in 1..(ValueSlot + 1) |-> NIL]

\* one record shape for the three node types; a field a type does not have
\* stays at its zero value.  Hash is HashNode.Hash, ShortNode.hashVal and
\* FullNode.HashVal.
HashNode(pre, key, value, path) ==
    [kind |-> "HashNode", Path |-> path, Pre |-> pre, Key |-> key,
     Value |-> value, Val |-> NIL, Children |-> NoChildren, Hash |-> ZeroHash]

ShortNode(path, key, val) ==
    [kind |-> "ShortNode", Path |-> path, Pre |-> << >>, Key |-> key,
     Value |-> << >>, Val |-> val, Children |-> NoChildren, Hash |-> ZeroHash]

FullNode(path, children) ==
    [kind |-> "FullNode", Path |-> path, Pre |-> << >>, Key |-> << >>,
     Value |-> << >>, Val |-> NIL, Children |-> children, Hash |-> ZeroHash]

\* the nodes reachable from n through ShortNode.Val and all 17 slots
RECURSIVE Reach(_, _)
Reach(h, n) ==
    IF n = NIL THEN {}
    ELSE {n} \cup Reach(h, h[n].Val)
             \cup UNION {Reach(h, h[n].Children[i + 1]) : i \in 0..ValueSlot}

\* errors.New / fmt.Errorf messages; OK is the nil error
OK == "nil"
ErrKeyEmpty == "key cannot be empty"
ErrNodeExists == "node exists"
ErrEmptyKey == "empty key"
ErrNibbleIndex == "invalid nibble value or index out of range"
ErrNibble == "invalid nibble value"

\* --------------------------------------------------------- insertion engine
\* &T{...}: the new node gets the next heap index
Alloc(h, node) == Append(h, node)
New(h) == Len(h) + 1

InsertResult(h, dirty, node, err) ==
    [heap |-> h, dirty |-> dirty, node |-> node, err |-> err]

\* resolveAndTrack(n, key2, path): the node to continue the insertion with.
\* key2 is returned as the caller's key slice reads after the call.
resolveAndTrack(h, n, key2, path) ==
    LET Pre == h[n].Pre
        l == prefixLen(Pre, key2)
    IN  IF l = Len(Pre)
        THEN IF Pre = key2
             THEN [heap |-> h, node |-> NIL, err |-> ErrNodeExists, key2 |-> key2]
             ELSE LET f == New(h)
                      h1 == Alloc(h, FullNode(nibblesToKey(path), NoChildren))
                      v == New(h1)
                      h2 == Alloc(h1, HashNode(<< >>, << >>, h[n].Value, << >>))
                      h3 == [h2 EXCEPT ![f].Children[ValueSlot + 1] = v]
                  IN  [heap |-> h3, node |-> f, err |-> OK, key2 |-> key2]
        ELSE IF l # 0
        THEN LET s == New(h)
                 h1 == Alloc(h, ShortNode(nibblesToKey(path),
                                          nibblesToKey(Head0(key2, l)), n))
                 h2 == [h1 EXCEPT ![n].Pre = Tail0(Pre, l)]
             IN  [heap |-> h2, node |-> s, err |-> OK,
                  key2 |-> AppendZeroInPlace(key2, l)]
        ELSE LET f == New(h)
                 slot == IF Len(Pre) > 0 /\ Pre[1] < NibbleBase
                         THEN Pre[1] ELSE ValueSlot
                 h1 == Alloc(h, FullNode(nibblesToKey(path),
                                         [NoChildren EXCEPT ![slot + 1] = n]))
             IN  [heap |-> h1, node |-> f, err |-> OK, key2 |-> key2]

\* case matchlen == len(key) of a ShortNode: the new key ends inside the
\* short node's key
insertShortPrefix(h, n, path, key, value, nodeKeyNibbles, matchlen) ==
    LET branch == New(h)
        h1 == Alloc(h, FullNode(<< >>, NoChildren))
        v == New(h1)
        h2 == Alloc(h1, HashNode(<< >>, << >>, value, << >>))
        h3 == [h2 EXCEPT ![branch].Children[ValueSlot + 1] = v,
                         ![branch].Path = nibblesToKey(path \o key)]
    IN  IF matchlen < Len(nodeKeyNibbles) /\ nodeKeyNibbles[matchlen + 1] < NibbleBase
        THEN LET h4 == [h3 EXCEPT
                           ![branch].Children[nodeKeyNibbles[matchlen + 1] + 1] = n,
                           ![n].Path = nibblesToKey(path \o key),
                           ![n].Key = nibblesToKey(Tail0(nodeKeyNibbles, matchlen))]
                 s == New(h4)
                 h5 == Alloc(h4, ShortNode(nibblesToKey(path), nibblesToKey(key), branch))
             IN  InsertResult(h5, TRUE, s, OK)
        ELSE InsertResult(h3, FALSE, NIL, ErrNibbleIndex)

\* case matchlen == 0 of a ShortNode: no common prefix
insertShortDisjoint(h, n, path, key, value, nodeKeyNibbles) ==
    LET branch == New(h)
        h1 == Alloc(h, FullNode(<< >>, NoChildren))
        leaf == New(h1)
        h2 == Alloc(h1, HashNode(key, << >>, value, nibblesToKey(path \o key)))
        h3 == [h2 EXCEPT ![branch].Path = nibblesToKey(path)]
    IN  IF Len(nodeKeyNibbles) > 0 /\ nodeKeyNibbles[1] < NibbleBase
        THEN LET h4 == [h3 EXCEPT ![branch].Children[nodeKeyNibbles[1] + 1] = n]
             IN  IF Len(key) > 0 /\ key[1] < NibbleBase
                 THEN InsertResult([h4 EXCEPT ![branch].Children[key[1] + 1] = leaf],
                                   TRUE, branch, OK)
                 ELSE InsertResult(h4, FALSE, NIL, ErrNibbleIndex)
        ELSE InsertResult(h3, FALSE, NIL, ErrNibbleIndex)

\* default case of a ShortNode: partial match, the short node is split
insertShortSplit(h, n, path, key, value, nodeKeyNibbles, matchlen) ==
    LET branch == New(h)
        h1 == Alloc(h, FullNode(nibblesToKey(path \o Head0(key, matchlen)), NoChildren))
    IN  IF matchlen < Len(nodeKeyNibbles) /\ nodeKeyNibbles[matchlen + 1] < NibbleBase
        THEN LET h2 == [h1 EXCEPT ![branch].Children[nodeKeyNibbles[matchlen + 1] + 1] = n]
                 leaf == New(h2)
                 h3 == Alloc(h2, HashNode(Tail0(key, matchlen), << >>, value,
                                          nibblesToKey(path \o Head0(key, matchlen))))
             IN  IF matchlen < Len(key) /\ key[matchlen + 1] < NibbleBase
                 THEN LET h4 == [h3 EXCEPT
                                   ![branch].Children[key[matchlen + 1] + 1] = leaf,
                                   ![n].Key = nibblesToKey(Tail0(nodeKeyNibbles, matchlen))]
                          \* Key: nibblesToKey(key[:matchlen]) writes through
                          \* to leaf.Pre, which is key[matchlen:]
                          h5 == [h4 EXCEPT ![leaf].Pre =
                                    Tail0(AppendZeroInPlace(key, matchlen), matchlen)]
                          s == New(h5)
                          h6 == Alloc(h5, ShortNode(nibblesToKey(path),
                                          nibblesToKey(Head0(key, matchlen)), branch))
                      IN  InsertResult(h6, TRUE, s, OK)
                 ELSE InsertResult(h3, FALSE, NIL, ErrNibbleIndex)
        ELSE InsertResult(h1, FALSE, NIL, ErrNibbleIndex)

\* the slots of the new FullNode without the copy of the old ones
replacedChildOnly(children, i, nn) == [NoChildren EXCEPT ![i + 1] = nn]

\* copy(newNode.Children[:], node.Children[:]); newNode.Children[i] = nn
copyChildren(children, i, nn) == [children EXCEPT ![i + 1] = nn]

\* a FullNode reached with no key left, taken as nothing to do
emptyKeyAccepted(h, n) == InsertResult(h, FALSE, n, OK)

\* a FullNode reached with no key left: the value slot is not used
emptyKey(h, n) == InsertResult(h, FALSE, n, ErrEmptyKey)

RECURSIVE insert(_, _, _, _, _)
insert(h, n, path, key, value) ==
    IF n = NIL
    THEN InsertResult(Alloc(h, HashNode(key, nibblesToKey(path \o key), value,
                                        nibblesToKey(path \o key))),
                      TRUE, New(h), OK)
    ELSE IF h[n].kind = "ShortNode"
    THEN LET nodeKeyNibbles == keyToNibbles(h[n].Key)
             matchlen == prefixLen(key, nodeKeyNibbles)
         IN  IF matchlen = Len(nodeKeyNibbles)
             THEN LET newPath == path \o nodeKeyNibbles
                      r == insert(h, h[n].Val, newPath, Tail0(key, matchlen), value)
                  IN  IF r.err # OK THEN InsertResult(r.heap, FALSE, n, r.err)
                      ELSE IF ~r.dirty THEN InsertResult(r.heap, FALSE, n, OK)
                      ELSE InsertResult(
                               Alloc(r.heap, ShortNode(nibblesToKey(newPath),
                                                       r.heap[n].Key, r.node)),
                               TRUE, New(r.heap), OK)
             ELSE IF matchlen = Len(key)
             THEN insertShortPrefix(h, n, path, key, value, nodeKeyNibbles, matchlen)
             ELSE IF matchlen = 0
             THEN insertShortDisjoint(h, n, path, key, value, nodeKeyNibbles)
             ELSE insertShortSplit(h, n, path, key, value, nodeKeyNibbles, matchlen)
    ELSE IF h[n].kind = "FullNode"
    THEN IF Len(key) = 0 THEN emptyKey(h, n)
         ELSE IF key[1] >= NibbleBase THEN InsertResult(h, FALSE, n, ErrNibble)
         ELSE LET r == insert(h, h[n].Children[key[1] + 1], Append(path, key[1]),
                              Tail(key), value)
              IN  IF r.err # OK \/ ~r.dirty
                  THEN InsertResult(r.heap, FALSE, n, r.err)
                  ELSE InsertResult(
                           Alloc(r.heap,
                                 FullNode(r.heap[n].Path,
                                          copyChildren(r.heap[n].Children, key[1], r.node))),
                           TRUE, New(r.heap), OK)
    ELSE \* HashNode
         LET rt == resolveAndTrack(h, n, key, path)
         IN  IF rt.err # OK THEN InsertResult(rt.heap, FALSE, NIL, rt.err)
             ELSE LET r == insert(rt.heap, rt.node, path, rt.key2, value)
                  IN  IF r.err # OK \/ ~r.dirty
                      THEN InsertResult(r.heap, FALSE, rt.node, r.err)
                      ELSE InsertResult(r.heap, TRUE, r.node, OK)

\* Insert without the check of the key length
InsertAnyKey(h, rt, key, value) ==
    LET r == insert(h, rt, << >>, keyToNibbles(key), value)
    IN  IF r.err # OK THEN [heap |-> r.heap, root |-> rt, err |-> r.err]
        ELSE [heap |-> r.heap, root |-> IF r.dirty THEN r.node ELSE rt, err |-> OK]

\* Trie.Insert: the heap and the root after the call, and the error returned
Insert(h, rt, key, value) ==
    IF Len(key) = 0 THEN [heap |-> h, root |-> rt, err |-> ErrKeyEmpty]
    ELSE LET r == insert(h, rt, << >>, keyToNibbles(key), value)
         IN  IF r.err # OK THEN [heap |-> r.heap, root |-> rt, err |-> r.err]
             ELSE [heap |-> r.heap, root |-> IF r.dirty THEN r.node ELSE rt, err |-> OK]

\* --------------------------------------------------------------- hash engine
\* ComputeHash(node): the heap with the digests it stored, and the digest
RECURSIVE ComputeHash(_, _)
RECURSIVE HashChildren(_, _, _, _)

\* the loop of the FullNode case without the slot index in the data
HashChildrenNoIndex(h, n, i, data) ==
    IF i > ValueSlot THEN [heap |-> h, data |-> data]
    ELSE IF h[n].Children[i + 1] = NIL THEN HashChildren(h, n, i + 1, data)
    ELSE LET c == ComputeHash(h, h[n].Children[i + 1])
         IN  HashChildren(c.heap, n, i + 1, data \o c.hash)

\* the loop of the FullNode case from slot i on, data collected so far
HashChildren(h, n, i, data) ==
    IF i > ValueSlot THEN [heap |-> h, data |-> data]
    ELSE IF h[n].Children[i + 1] = NIL THEN HashChildren(h, n, i + 1, data)
    ELSE LET c == ComputeHash(h, h[n].Children[i + 1])
         IN  HashChildren(c.heap, n, i + 1, (data \o <<i>>) \o c.hash)

ComputeHash(h, n) ==
    IF n = NIL THEN [heap |-> h, hash |-> ZeroHash]
    ELSE IF h[n].kind = "HashNode"
    THEN IF h[n].Hash # ZeroHash THEN [heap |-> h, hash |-> h[n].Hash]
         ELSE LET d == Keccak256Hash(h[n].Pre \o h[n].Value)
              IN  [heap |-> [h EXCEPT ![n].Hash = d], hash |-> d]
    ELSE IF h[n].kind = "ShortNode"
    THEN LET c == ComputeHash(h, h[n].Val)
             d == Keccak256Hash(keyToNibbles(h[n].Key) \o c.hash)
         IN  [heap |-> [c.heap EXCEPT ![n].Hash = d], hash |-> d]
    ELSE LET c == HashChildren(h, n, 0, << >>)
             d == Keccak256Hash(c.data)
         IN  [heap |-> [c.heap EXCEPT ![n].Hash = d], hash |-> d]

\* --------------------------------------------------------- proof-cost engine
RECURSIVE calculateHashes(_, _, _)
RECURSIVE CountChildren(_, _, _, _, _)

\* the loop of the FullNode case from slot i on:
\* acc = [allFalseCount, totalNeedSum, anyTrueFlag]
CountChildren(h, n, transactions, i, acc) ==
    IF i >= NibbleBase THEN acc
    ELSE IF h[n].Children[i + 1] = NIL THEN CountChildren(h, n, transactions, i + 1, acc)
    ELSE LET c == calculateHashes(h, h[n].Children[i + 1], transactions)
         IN  CountChildren(h, n, transactions, i + 1,
                 IF c.flag
                 THEN [acc EXCEPT !.anyTrueFlag = TRUE,
                                  !.totalNeedSum = acc.totalNeedSum + c.need]
                 ELSE [acc EXCEPT !.allFalseCount = acc.allFalseCount + 1])

\* calculateHashes with a matched leaf counted as one hash
calculateHashesLeafCostsOne(h, n, transactions) ==
    IF n = NIL THEN [flag |-> FALSE, need |-> 0]
    ELSE IF h[n].kind = "HashNode"
    THEN IF \E txHash \in transactions : keyToNibbles(h[n].Key) = txHash
         THEN [flag |-> TRUE, need |-> 1]
         ELSE [flag |-> FALSE, need |-> 0]
    ELSE IF h[n].kind = "ShortNode"
    THEN calculateHashes(h, h[n].Val, transactions)
    ELSE LET acc == CountChildren(h, n, transactions, 0,
                        [allFalseCount |-> 0, totalNeedSum |-> 0, anyTrueFlag |-> FALSE])
         IN  IF acc.anyTrueFlag
             THEN [flag |-> TRUE, need |-> acc.totalNeedSum + acc.allFalseCount]
             ELSE [flag |-> FALSE, need |-> 0]

calculateHashes(h, n, transactions) ==
    IF n = NIL THEN [flag |-> FALSE, need |-> 0]
    ELSE IF h[n].kind = "HashNode"
    THEN [flag |-> \E txHash \in transactions : keyToNibbles(h[n].Key) = txHash,
          need |-> 0]
    ELSE IF h[n].kind = "ShortNode"
    THEN calculateHashes(h, h[n].Val, transactions)
    ELSE LET acc == CountChildren(h, n, transactions, 0,
                        [allFalseCount |-> 0, totalNeedSum |-> 0, anyTrueFlag |-> FALSE])
         IN  IF acc.anyTrueFlag
             THEN [flag |-> TRUE, need |-> acc.totalNeedSum + acc.allFalseCount]
             ELSE [flag |-> FALSE, need |-> 0]

\* CalculateRequiredHashes2 for the transactions whose hashes are the byte
\* keys in txKeys (cmpt: for the nibble sequences of those cluster keys)
CalculateRequiredHashes2(h, rt, txKeys) ==
    IF rt = NIL \/ txKeys = {} THEN 0
    ELSE LET r == calculateHashes(h, rt, {keyToNibbles(k) : k \in txKeys})
         IN  IF r.flag THEN r.need ELSE 0

\* ------------------------------------------------------------ clustered trie
\* cmpt/ClusteredMerklePatriciaTrie.go has its own codec, insertion, hash and
\* proof-cost functions over the same node types; they are written out here
\* from that file
RECURSIVE cmpt_keyToNibbles(_)
cmpt_keyToNibbles(key) ==
    IF key = << >> THEN << >>
    ELSE <<key[1] \div NibbleBase, key[1] % NibbleBase>> \o cmpt_keyToNibbles(Tail(key))

RECURSIVE cmpt_PackNibbles(_)
cmpt_PackNibbles(nibbles) ==
    IF nibbles = << >> THEN << >>
    ELSE <<((nibbles[1] * NibbleBase) % ByteRange) + nibbles[2]>>
         \o cmpt_PackNibbles(Tail(Tail(nibbles)))

cmpt_nibblesToKey(nibbles) ==
    cmpt_PackNibbles(IF Len(nibbles) % 2 # 0 THEN Append(nibbles, 0) ELSE nibbles)

RECURSIVE cmpt_prefixLenFrom(_, _, _)
cmpt_prefixLenFrom(a, b, i) ==
    IF i < Len(a) /\ i < Len(b) /\ a[i + 1] = b[i + 1]
    THEN cmpt_prefixLenFrom(a, b, i + 1)
    ELSE i

cmpt_prefixLen(a, b) == cmpt_prefixLenFrom(a, b, 0)

cmpt_resolveAndTrack(h, n, key2, path) ==
    LET Pre == h[n].Pre
        l == cmpt_prefixLen(Pre, key2)
    IN  IF l = Len(Pre)
        THEN IF Pre = key2
             THEN [heap |-> h, node |-> NIL, err |-> ErrNodeExists, key2 |-> key2]
             ELSE LET f == New(h)
                      h1 == Alloc(h, FullNode(cmpt_nibblesToKey(path), NoChildren))
                      v == New(h1)
                      h2 == Alloc(h1, HashNode(<< >>, << >>, h[n].Value, << >>))
                      h3 == [h2 EXCEPT ![f].Children[ValueSlot + 1] = v]
                  IN  [heap |-> h3, node |-> f, err |-> OK, key2 |-> key2]
        ELSE IF l # 0
        THEN LET s == New(h)
                 h1 == Alloc(h, ShortNode(cmpt_nibblesToKey(path),
                                          cmpt_nibblesToKey(Head0(key2, l)), n))
                 h2 == [h1 EXCEPT ![n].Pre = Tail0(Pre, l)]
             IN  [heap |-> h2, node |-> s, err |-> OK,
                  key2 |-> AppendZeroInPlace(key2, l)]
        ELSE LET f == New(h)
                 slot == IF Len(Pre) > 0 /\ Pre[1] < NibbleBase
                         THEN Pre[1] ELSE ValueSlot
                 h1 == Alloc(h, FullNode(cmpt_nibblesToKey(path),
                                         [NoChildren EXCEPT ![slot + 1] = n]))
             IN  [heap |-> h1, node |-> f, err |-> OK, key2 |-> key2]

cmpt_insertShortPrefix(h, n, path, key, value, nodeKeyNibbles, matchlen) ==
    LET branch == New(h)
        h1 == Alloc(h, FullNode(<< >>, NoChildren))
        v == New(h1)
        h2 == Alloc(h1, HashNode(<< >>, << >>, value, << >>))
        h3 == [h2 EXCEPT ![branch].Children[ValueSlot + 1] = v,
                         ![branch].Path = cmpt_nibblesToKey(path \o key)]
    IN  IF matchlen < Len(nodeKeyNibbles) /\ nodeKeyNibbles[matchlen + 1] < NibbleBase
        THEN LET h4 == [h3 EXCEPT
                           ![branch].Children[nodeKeyNibbles[matchlen + 1] + 1] = n,
                           ![n].Path = cmpt_nibblesToKey(path \o key),
                           ![n].Key = cmpt_nibblesToKey(Tail0(nodeKeyNibbles, matchlen))]
                 s == New(h4)
                 h5 == Alloc(h4, ShortNode(cmpt_nibblesToKey(path), cmpt_nibblesToKey(key), branch))
             IN  InsertResult(h5, TRUE, s, OK)
        ELSE InsertResult(h3, FALSE, NIL, ErrNibbleIndex)

cmpt_insertShortDisjoint(h, n, path, key, value, nodeKeyNibbles) ==
    LET branch == New(h)
        h1 == Alloc(h, FullNode(<< >>, NoChildren))
        leaf == New(h1)
        h2 == Alloc(h1, HashNode(key, << >>, value, cmpt_nibblesToKey(path \o key)))
        h3 == [h2 EXCEPT ![branch].Path = cmpt_nibblesToKey(path)]
    IN  IF Len(nodeKeyNibbles) > 0 /\ nodeKeyNibbles[1] < NibbleBase
        THEN LET h4 == [h3 EXCEPT ![branch].Children[nodeKeyNibbles[1] + 1] = n]
             IN  IF Len(key) > 0 /\ key[1] < NibbleBase
                 THEN InsertResult([h4 EXCEPT ![branch].Children[key[1] + 1] = leaf],
                                   TRUE, branch, OK)
                 ELSE InsertResult(h4, FALSE, NIL, ErrNibbleIndex)
        ELSE InsertResult(h3, FALSE, NIL, ErrNibbleIndex)

cmpt_insertShortSplit(h, n, path, key, value, nodeKeyNibbles, matchlen) ==
    LET branch == New(h)
        h1 == Alloc(h, FullNode(cmpt_nibblesToKey(path \o Head0(key, matchlen)), NoChildren))
    IN  IF matchlen < Len(nodeKeyNibbles) /\ nodeKeyNibbles[matchlen + 1] < NibbleBase
        THEN LET h2 == [h1 EXCEPT ![branch].Children[nodeKeyNibbles[matchlen + 1] + 1] = n]
                 leaf == New(h2)
                 h3 == Alloc(h2, HashNode(Tail0(key, matchlen), << >>, value,
                                          cmpt_nibblesToKey(path \o Head0(key, matchlen))))
             IN  IF matchlen < Len(key) /\ key[matchlen + 1] < NibbleBase
                 THEN LET h4 == [h3 EXCEPT
                                   ![branch].Children[key[matchlen + 1] + 1] = leaf,
                                   ![n].Key = cmpt_nibblesToKey(Tail0(nodeKeyNibbles, matchlen))]
                          \* Key: cmpt_nibblesToKey(key[:matchlen]) writes through
                          \* to leaf.Pre, which is key[matchlen:]
                          h5 == [h4 EXCEPT ![leaf].Pre =
                                    Tail0(AppendZeroInPlace(key, matchlen), matchlen)]
                          s == New(h5)
                          h6 == Alloc(h5, ShortNode(cmpt_nibblesToKey(path),
                                          cmpt_nibblesToKey(Head0(key, matchlen)), branch))
                      IN  InsertResult(h6, TRUE, s, OK)
                 ELSE InsertResult(h3, FALSE, NIL, ErrNibbleIndex)
        ELSE InsertResult(h1, FALSE, NIL, ErrNibbleIndex)

RECURSIVE cmpt_insert(_, _, _, _, _)
cmpt_insert(h, n, path, key, value) ==
    IF n = NIL
    THEN InsertResult(Alloc(h, HashNode(key, cmpt_nibblesToKey(path \o key), value,
                                        cmpt_nibblesToKey(path \o key))),
                      TRUE, New(h), OK)
    ELSE IF h[n].kind = "ShortNode"
    THEN LET nodeKeyNibbles == cmpt_keyToNibbles(h[n].Key)
             matchlen == cmpt_prefixLen(key, nodeKeyNibbles)
         IN  IF matchlen = Len(nodeKeyNibbles)
             THEN LET newPath == path \o nodeKeyNibbles
                      r == cmpt_insert(h, h[n].Val, newPath, Tail0(key, matchlen), value)
                  IN  IF r.err # OK THEN InsertResult(r.heap, FALSE, n, r.err)
                      ELSE IF ~r.dirty THEN InsertResult(r.heap, FALSE, n, OK)
                      ELSE InsertResult(
                               Alloc(r.heap, ShortNode(cmpt_nibblesToKey(newPath),
                                                       r.heap[n].Key, r.node)),
                               TRUE, New(r.heap), OK)
             ELSE IF matchlen = Len(key)
             THEN cmpt_insertShortPrefix(h, n, path, key, value, nodeKeyNibbles, matchlen)
             ELSE IF matchlen = 0
             THEN cmpt_insertShortDisjoint(h, n, path, key, value, nodeKeyNibbles)
             ELSE cmpt_insertShortSplit(h, n, path, key, value, nodeKeyNibbles, matchlen)
    ELSE IF h[n].kind = "FullNode"
    THEN IF Len(key) = 0 THEN InsertResult(h, FALSE, n, ErrEmptyKey)
         ELSE IF key[1] >= NibbleBase THEN InsertResult(h, FALSE, n, ErrNibble)
         ELSE LET r == cmpt_insert(h, h[n].Children[key[1] + 1], Append(path, key[1]),
                              Tail(key), value)
              IN  IF r.err # OK \/ ~r.dirty
                  THEN InsertResult(r.heap, FALSE, n, r.err)
                  ELSE InsertResult(
                           Alloc(r.heap,
                                 FullNode(r.heap[n].Path,
                                          [r.heap[n].Children EXCEPT ![key[1] + 1] = r.node])),
                           TRUE, New(r.heap), OK)
    ELSE \* HashNode
         LET rt == cmpt_resolveAndTrack(h, n, key, path)
         IN  IF rt.err # OK THEN InsertResult(rt.heap, FALSE, NIL, rt.err)
             ELSE LET r == cmpt_insert(rt.heap, rt.node, path, rt.key2, value)
                  IN  IF r.err # OK \/ ~r.dirty
                      THEN InsertResult(r.heap, FALSE, rt.node, r.err)
                      ELSE InsertResult(r.heap, TRUE, r.node, OK)

cmpt_Insert(h, rt, key, value) ==
    IF Len(key) = 0 THEN [heap |-> h, root |-> rt, err |-> ErrKeyEmpty]
    ELSE LET r == cmpt_insert(h, rt, << >>, cmpt_keyToNibbles(key), value)
         IN  IF r.err # OK THEN [heap |-> r.heap, root |-> rt, err |-> r.err]
             ELSE [heap |-> r.heap, root |-> IF r.dirty THEN r.node ELSE rt, err |-> OK]

RECURSIVE cmpt_ComputeHash(_, _)
RECURSIVE cmpt_HashChildren(_, _, _, _)
cmpt_HashChildren(h, n, i, data) ==
    IF i > ValueSlot THEN [heap |-> h, data |-> data]
    ELSE IF h[n].Children[i + 1] = NIL THEN cmpt_HashChildren(h, n, i + 1, data)
    ELSE LET c == cmpt_ComputeHash(h, h[n].Children[i + 1])
         IN  cmpt_HashChildren(c.heap, n, i + 1, (data \o <<i>>) \o c.hash)

cmpt_ComputeHash(h, n) ==
    IF n = NIL THEN [heap |-> h, hash |-> ZeroHash]
    ELSE IF h[n].kind = "HashNode"
    THEN IF h[n].Hash # ZeroHash THEN [heap |-> h, hash |-> h[n].Hash]
         ELSE LET d == Keccak256Hash(h[n].Pre \o h[n].Value)
              IN  [heap |-> [h EXCEPT ![n].Hash = d], hash |-> d]
    ELSE IF h[n].kind = "ShortNode"
    THEN LET c == cmpt_ComputeHash(h, h[n].Val)
             d == Keccak256Hash(cmpt_keyToNibbles(h[n].Key) \o c.hash)
         IN  [heap |-> [c.heap EXCEPT ![n].Hash = d], hash |-> d]
    ELSE LET c == cmpt_HashChildren(h, n, 0, << >>)
             d == Keccak256Hash(c.data)
         IN  [heap |-> [c.heap EXCEPT ![n].Hash = d], hash |-> d]

RECURSIVE cmpt_calculateHashes(_, _, _)
RECURSIVE cmpt_CountChildren(_, _, _, _, _)
cmpt_CountChildren(h, n, clusterKeys, i, acc) ==
    IF i >= NibbleBase THEN acc
    ELSE IF h[n].Children[i + 1] = NIL THEN cmpt_CountChildren(h, n, clusterKeys, i + 1, acc)
    ELSE LET c == cmpt_calculateHashes(h, h[n].Children[i + 1], clusterKeys)
         IN  cmpt_CountChildren(h, n, clusterKeys, i + 1,
                 IF c.flag
                 THEN [acc EXCEPT !.anyTrueFlag = TRUE,
                                  !.totalNeedSum = acc.totalNeedSum + c.need]
                 ELSE [acc EXCEPT !.allFalseCount = acc.allFalseCount + 1])

cmpt_calculateHashes(h, n, clusterKeys) ==
    IF n = NIL THEN [flag |-> FALSE, need |-> 0]
    ELSE IF h[n].kind = "HashNode"
    THEN [flag |-> \E txHash \in clusterKeys : cmpt_keyToNibbles(h[n].Key) = txHash,
          need |-> 0]
    ELSE IF h[n].kind = "ShortNode"
    THEN cmpt_calculateHashes(h, h[n].Val, clusterKeys)
    ELSE LET acc == cmpt_CountChildren(h, n, clusterKeys, 0,
                        [allFalseCount |-> 0, totalNeedSum |-> 0, anyTrueFlag |-> FALSE])
         IN  IF acc.anyTrueFlag
             THEN [flag |-> TRUE, need |-> acc.totalNeedSum + acc.allFalseCount]
             ELSE [flag |-> FALSE, need |-> 0]

\* CalculateRequiredHashes2 with the targets converted as the plain trie
\* converts transaction hashes
cmpt_CalculateRequiredHashes2OfBytes(h, rt, clusterKeys) ==
    IF rt = NIL \/ clusterKeys = {} THEN 0
    ELSE LET r == cmpt_calculateHashes(h, rt, {cmpt_keyToNibbles(k) : k \in clusterKeys})
         IN  IF r.flag THEN r.need ELSE 0

\* CalculateRequiredHashes2(clusterKeys): the targets are compared as they are
\* with the nibbles of the leaf keys
cmpt_CalculateRequiredHashes2(h, rt, clusterKeys) ==
    IF rt = NIL \/ clusterKeys = {} THEN 0
    ELSE LET r == cmpt_calculateHashes(h, rt, clusterKeys)
         IN  IF r.flag THEN r.need ELSE 0

\* a fresh clustered trie that receives the calls of a sequence in order
RECURSIVE cmpt_Replay(_)
cmpt_Replay(calls) ==
    IF calls = << >> THEN [heap |-> << >>, root |-> NIL, hist |-> << >>]
    ELSE LET n == Len(calls)
             t == cmpt_Replay(Head0(calls, n - 1))
             r == cmpt_Insert(t.heap, t.root, calls[n].key, calls[n].value)
         IN  [heap |-> r.heap, root |-> r.root,
              hist |-> Append(t.hist, [key |-> calls[n].key,
                                       value |-> calls[n].value, err |-> r.err])]

\* ---------------------------------------------------------------- replay
\* a fresh trie (NewTrie) that receives the calls of a sequence in order:
\* its heap and root, and the calls with the error each returned
RECURSIVE Replay(_)
Replay(calls) ==
    IF calls = << >> THEN [heap |-> << >>, root |-> NIL, hist |-> << >>]
    ELSE LET n == Len(calls)
             t == Replay(Head0(calls, n - 1))
             r == Insert(t.heap, t.root, calls[n].key, calls[n].value)
         IN  [heap |-> r.heap, root |-> r.root,
              hist |-> Append(t.hist, [key |-> calls[n].key,
                                       value |-> calls[n].value, err |-> r.err])]

\* the digest ComputeHash returns for the root of a trie
RootDigest(h, rt) == ComputeHash(h, rt).hash

\* ------------------------------------------------------------ batch builders
\* fixedPath(node, path): the heap with the Path fields it rewrites
RECURSIVE fixedPath(_, _, _)
RECURSIVE FixChildren(_, _, _, _)

\* the loop of the FullNode case from slot i on
FixChildren(h, n, path, i) ==
    IF i >= NibbleBase THEN h
    ELSE IF h[n].Children[i + 1] = NIL THEN FixChildren(h, n, path, i + 1)
    ELSE FixChildren(fixedPath(h, h[n].Children[i + 1], Append(path, i)),
                     n, path, i + 1)

fixedPath(h, node, path) ==
    IF node = NIL THEN h
    ELSE IF h[node].kind = "HashNode"
    THEN [h EXCEPT ![node].Path = h[node].Key]
    ELSE IF h[node].kind = "ShortNode"
    THEN fixedPath([h EXCEPT ![node].Path = nibblesToKey(path)], h[node].Val,
                   path \o keyToNibbles(h[node].Key))
    ELSE FixChildren([h EXCEPT ![node].Path = nibblesToKey(path)], node, path, 0)

\* a trie under construction: heap, root and the records tried so far with
\* the error each Insert returned
Logged(t, rec, r) ==
    [heap |-> r.heap, root |-> r.root,
     hist |-> Append(t.hist, [key |-> rec.key, value |-> rec.value, err |-> r.err])]

\* the body of the loop: Insert, and on an error print and continue
InsertRecord(t, rec) == Logged(t, rec, Insert(t.heap, t.root, rec.key, rec.value))

RECURSIVE InsertRecords(_, _)

\* the loop with break in the place of continue
InsertRecordsUntilError(t, records) ==
    IF records = << >> \/ (t.hist # << >> /\ t.hist[Len(t.hist)].err # OK) THEN t
    ELSE InsertRecords(InsertRecord(t, Head(records)), Tail(records))

\* the loop over the records
InsertRecords(t, records) ==
    IF records = << >> THEN t
    ELSE InsertRecords(InsertRecord(t, Head(records)), Tail(records))

\* trie.fixedPath(trie.Root, []byte{}); trie.ComputeHash(trie.Root)
Hashed(t, c) == [heap |-> c.heap, root |-> t.root, hist |-> t.hist, digest |-> c.hash]
FixAndHash(t) == Hashed(t, ComputeHash(fixedPath(t.heap, t.root, << >>), t.root))

\* a transaction is its binary encoding; tr.Hash() is a digest of fixed
\* length, here the MaxKeyLen bytes of the encoding
Transactions == {k \in Keys : Len(k) = MaxKeyLen}
TxHash(tr) == tr
MarshalBinary(tr) == tr
TxRecords(transactions) ==
    [i \in 1..Len(transactions) |->
        [key |-> TxHash(transactions[i]), value |-> MarshalBinary(transactions[i])]]

BuildMPTTree(h, rt, transactions) ==
    FixAndHash(InsertRecords([heap |-> h, root |-> rt, hist |-> << >>],
                             TxRecords(transactions)))

\* BuildCMPTTree with the clusters in the order the map iteration yields
\* them: entries are (prefix, packed value) with pairwise distinct prefixes
RECURSIVE cmpt_fixedPath(_, _, _)
RECURSIVE cmpt_FixChildren(_, _, _, _)
cmpt_FixChildren(h, n, path, i) ==
    IF i >= NibbleBase THEN h
    ELSE IF h[n].Children[i + 1] = NIL THEN cmpt_FixChildren(h, n, path, i + 1)
    ELSE cmpt_FixChildren(cmpt_fixedPath(h, h[n].Children[i + 1], Append(path, i)),
                          n, path, i + 1)

cmpt_fixedPath(h, node, path) ==
    IF node = NIL THEN h
    ELSE IF h[node].kind = "HashNode"
    THEN [h EXCEPT ![node].Path = h[node].Key]
    ELSE IF h[node].kind = "ShortNode"
    THEN cmpt_fixedPath([h EXCEPT ![node].Path = cmpt_nibblesToKey(path)], h[node].Val,
                        path \o cmpt_keyToNibbles(h[node].Key))
    ELSE cmpt_FixChildren([h EXCEPT ![node].Path = cmpt_nibblesToKey(path)], node, path, 0)

cmpt_InsertRecord(t, rec) ==
    Logged(t, rec, cmpt_Insert(t.heap, t.root, rec.key, rec.value))

RECURSIVE cmpt_InsertRecords(_, _)
cmpt_InsertRecords(t, records) ==
    IF records = << >> THEN t
    ELSE cmpt_InsertRecords(cmpt_InsertRecord(t, Head(records)), Tail(records))

cmpt_FixAndHash(t) ==
    Hashed(t, cmpt_ComputeHash(cmpt_fixedPath(t.heap, t.root, << >>), t.root))

BuildCMPTTree(h, rt, entries) ==
    cmpt_FixAndHash(cmpt_InsertRecords([heap |-> h, root |-> rt, hist |-> << >>],
                                       entries))

\* ------------------------------------------------------- binary Merkle tree
\* merkle/MerkleTree.go.  Transactions are the numbers 1..MaxMerkleTxs; the
\* nodes live in a heap as those of the trie do.
MerkleTxs == 1..MaxMerkleTxs
NoTx == 0
\* tx.Hash()
MerkleTxHash(tx) == Keccak256Hash(<<tx>>)

MerkleTreeNode(left, right, hash, tx) ==
    [Parent |-> NIL, Left |-> left, Right |-> right, Hash |-> hash, Tx |-> tx]

computeCombinedHash(hash1, hash2) == Keccak256Hash(hash1 \o hash2)

\* the leaf nodes of createTree for the transactions from position i on
RECURSIVE MerkleLeaves(_, _, _)
MerkleLeaves(h, transactions, i) ==
    IF i > Len(transactions) THEN h
    ELSE MerkleLeaves(Append(h, MerkleTreeNode(NIL, NIL, MerkleTxHash(transactions[i]),
                                               transactions[i])),
                      transactions, i + 1)

\* one pair of the inner loop of createTree: the heap with the parent (and
\* the copy of an unpaired last node) added and the Parent fields set
MerklePair(h, left, right) ==
    LET h1 == IF right = NIL
              THEN Append(h, MerkleTreeNode(NIL, NIL, h[left].Hash, h[left].Tx))
              ELSE h
        r == IF right = NIL THEN Len(h1) ELSE right
        parent == Len(h1) + 1
        h2 == Append(h1, MerkleTreeNode(left, r, computeCombinedHash(h1[left].Hash, h1[r].Hash),
                                        NoTx))
    IN  [h2 EXCEPT ![left].Parent = parent, ![r].Parent = parent]

\* the inner loop of createTree from position i (0-based) of nodes on
RECURSIVE MerkleLevel(_, _, _, _)
MerkleLevel(h, nodes, i, newLevel) ==
    IF i >= Len(nodes) THEN [heap |-> h, nodes |-> newLevel]
    ELSE LET h1 == MerklePair(h, nodes[i + 1],
                              IF i + 1 < Len(nodes) THEN nodes[i + 2] ELSE NIL)
         IN  MerkleLevel(h1, nodes, i + 2, Append(newLevel, Len(h1)))

\* the outer loop of createTree
RECURSIVE MerkleLevels(_, _)
MerkleLevels(h, nodes) ==
    IF Len(nodes) <= 1 THEN [heap |-> h, nodes |-> nodes]
    ELSE LET l == MerkleLevel(h, nodes, 0, << >>)
         IN  MerkleLevels(l.heap, l.nodes)

\* NewMerkleTree(transactions) for a non-empty list
NewMerkleTree(transactions) ==
    LET leaves == [i \in 1..Len(transactions) |-> i]
        t == MerkleLevels(MerkleLeaves(<< >>, transactions, 1), leaves)
    IN  [Transactions |-> transactions, Nodes |-> leaves, heap |-> t.heap,
         Root |-> t.nodes[1]]

\* findLeafNode(txHash): the first node of Nodes with that hash, or nil
findLeafNode(mt, txHash) ==
    LET found == {i \in 1..Len(mt.Nodes) : mt.heap[mt.Nodes[i]].Hash = txHash}
    IN  IF found = {} THEN NIL
        ELSE mt.Nodes[CHOOSE i \in found : \A j \in found : i <= j]

\* the loop of GetProof from node on
RECURSIVE ProofFrom(_, _, _)
ProofFrom(mt, node, proof) ==
    IF node = NIL \/ mt.heap[node].Parent = NIL THEN proof
    ELSE LET parent == mt.heap[node].Parent
         IN  ProofFrom(mt, parent,
                       Append(proof, IF mt.heap[parent].Left = node
                                     THEN mt.heap[mt.heap[parent].Right].Hash
                                     ELSE mt.heap[mt.heap[parent].Left].Hash))

GetProof(mt, tx) == ProofFrom(mt, findLeafNode(mt, MerkleTxHash(tx)), << >>)

\* the loop of VerifyProof from position i of the proof on
RECURSIVE FoldProof(_, _, _)
FoldProof(hash, proof, i) ==
    IF i > Len(proof) THEN hash
    ELSE FoldProof(computeCombinedHash(hash, proof[i]), proof, i + 1)

VerifyProof(mt, tx, proof) ==
    FoldProof(MerkleTxHash(tx), proof, 1) = mt.heap[mt.Root].Hash

\* -------------------------------------------------------- K-ary Merkle tree
\* package kmerkle.  The nodes live in a heap; a leaf hash is a digest.
K == 16

KNode(children, isLeaf, txHash) ==
    [Children |-> children, IsLeaf |-> isLeaf, TxHash |-> txHash,
     Hash |-> ZeroHash, Parent |-> NIL]

\* the distinct leaf hashes a tree of n leaves is built from
KLeafHashes(n) == [i \in 1..n |-> Keccak256Hash(<<i>>)]

\* for _, child := range children { child.Parent = parent }
KSetParent(h, children, parent) ==
    [n \in 1..Len(h) |->
        IF \E j \in 1..Len(children) : children[j] = n
        THEN [h[n] EXCEPT !.Parent = parent] ELSE h[n]]

\* the inner loop of NewFromHashes from position i (0-based) on
RECURSIVE KGroupLevel(_, _, _, _)
KGroupLevel(h, currentLevel, i, nextLevel) ==
    IF i >= Len(currentLevel) THEN [heap |-> h, nodes |-> nextLevel]
    ELSE LET end == IF i + K > Len(currentLevel) THEN Len(currentLevel) ELSE i + K
             children == SubSeq(currentLevel, i + 1, end)
             parent == Len(h) + 1
         IN  KGroupLevel(KSetParent(Append(h, KNode(children, FALSE, ZeroHash)),
                                    children, parent),
                         currentLevel, i + K, Append(nextLevel, parent))

\* the outer loop of NewFromHashes
RECURSIVE KGroupLevels(_, _)
KGroupLevels(h, currentLevel) ==
    IF Len(currentLevel) <= 1 THEN [heap |-> h, nodes |-> currentLevel]
    ELSE LET l == KGroupLevel(h, currentLevel, 0, << >>)
         IN  KGroupLevels(l.heap, l.nodes)

RECURSIVE computeHashesPostOrder(_, _)
RECURSIVE KHashChildren(_, _, _, _)

\* the loop over node.Children from position i on, buf collected so far
KHashChildren(h, node, i, buf) ==
    IF i > Len(h[node].Children) THEN [heap |-> h, buf |-> buf]
    ELSE LET c == computeHashesPostOrder(h, h[node].Children[i])
         IN  KHashChildren(c.heap, node, i + 1, buf \o c.hash)

computeHashesPostOrder(h, node) ==
    IF node = NIL THEN [heap |-> h, hash |-> ZeroHash]
    ELSE IF h[node].IsLeaf
    THEN [heap |-> [h EXCEPT ![node].Hash = h[node].TxHash], hash |-> h[node].TxHash]
    ELSE LET c == KHashChildren(h, node, 1, << >>)
             d == Keccak256Hash(c.buf)
         IN  [heap |-> [c.heap EXCEPT ![node].Hash = d], hash |-> d]

\* NewFromHashes(leafHashes): the tree with its nodes
NewFromHashes(leafHashes) ==
    IF Len(leafHashes) = 0 THEN [Root |-> NIL, K |-> K, heap |-> << >>]
    ELSE LET leaves == [i \in 1..Len(leafHashes) |-> KNode(<< >>, TRUE, leafHashes[i])]
             t == KGroupLevels(leaves, [i \in 1..Len(leafHashes) |-> i])
         IN  [Root |-> t.nodes[1], K |-> K,
              heap |-> computeHashesPostOrder(t.heap, t.nodes[1]).heap]

RECURSIVE calculateRequiredHashes(_, _, _)
RECURSIVE KCountChildren(_, _, _, _, _)

\* the loop over node.Children from position i on:
\* acc = [allFalseCount, totalNeedSum, anyTrueFlag]
KCountChildren(h, node, targets, i, acc) ==
    IF i > Len(h[node].Children) THEN acc
    ELSE IF h[node].Children[i] = NIL THEN KCountChildren(h, node, targets, i + 1, acc)
    ELSE LET c == calculateRequiredHashes(h, h[node].Children[i], targets)
         IN  KCountChildren(h, node, targets, i + 1,
                 IF c.flag
                 THEN [acc EXCEPT !.anyTrueFlag = TRUE,
                                  !.totalNeedSum = acc.totalNeedSum + c.need]
                 ELSE [acc EXCEPT !.allFalseCount = acc.allFalseCount + 1])

\* calculateRequiredHashes that charges nothing for the children without targets
calculateRequiredHashesHitsOnly(h, node, targets) ==
    IF node = NIL THEN [flag |-> FALSE, need |-> 0]
    ELSE IF h[node].IsLeaf
    THEN [flag |-> h[node].TxHash \in targets, need |-> 0]
    ELSE LET acc == KCountChildren(h, node, targets, 1,
                        [allFalseCount |-> 0, totalNeedSum |-> 0, anyTrueFlag |-> FALSE])
         IN  IF acc.anyTrueFlag
             THEN [flag |-> TRUE, need |-> acc.totalNeedSum]
             ELSE [flag |-> FALSE, need |-> 0]

calculateRequiredHashes(h, node, targets) ==
    IF node = NIL THEN [flag |-> FALSE, need |-> 0]
    ELSE IF h[node].IsLeaf
    THEN [flag |-> h[node].TxHash \in targets, need |-> 0]
    ELSE LET acc == KCountChildren(h, node, targets, 1,
                        [allFalseCount |-> 0, totalNeedSum |-> 0, anyTrueFlag |-> FALSE])
         IN  IF acc.anyTrueFlag
             THEN [flag |-> TRUE, need |-> acc.totalNeedSum + acc.allFalseCount]
             ELSE [flag |-> FALSE, need |-> 0]

\* t.RequiredHashCount(targets), targets as the set the function makes of them
RequiredHashCount(t, targets) ==
    IF t.Root = NIL \/ targets = {} THEN 0
    ELSE LET r == calculateRequiredHashes(t.heap, t.Root, targets)
         IN  IF r.flag THEN r.need ELSE 0

\* -------------------------------------------------------- Verkle-style tree
\* verkle/VerkleTree.go.  Transactions are the numbers 1..n.
VerkleK == 16

VNode(children, isLeaf, txHash, transaction) ==
    [Children |-> children, IsLeaf |-> isLeaf, TxHash |-> txHash,
     Hash |-> ZeroHash, Parent |-> NIL, Transaction |-> transaction]

\* tx.Hash()
VerkleTxHash(tx) == Keccak256Hash(<<tx>>)

\* the distinct transactions a tree of n leaves is built from
VerkleTxs(n) == [i \in 1..n |-> i]

\* for _, child := range children { child.Parent = parent }
VSetParent(h, children, parent) ==
    [n \in 1..Len(h) |->
        IF \E j \in 1..Len(children) : children[j] = n
        THEN [h[n] EXCEPT !.Parent = parent] ELSE h[n]]

\* the inner loop of NewVerkleTreeFromTransactions from position i on
RECURSIVE VGroupLevel(_, _, _, _)
VGroupLevel(h, currentLevel, i, nextLevel) ==
    IF i >= Len(currentLevel) THEN [heap |-> h, nodes |-> nextLevel]
    ELSE LET end == IF i + VerkleK > Len(currentLevel)
                    THEN Len(currentLevel) ELSE i + VerkleK
             children == SubSeq(currentLevel, i + 1, end)
             parent == Len(h) + 1
         IN  VGroupLevel(VSetParent(Append(h, VNode(children, FALSE, ZeroHash, NoTx)),
                                    children, parent),
                         currentLevel, i + VerkleK, Append(nextLevel, parent))

\* the outer loop of NewVerkleTreeFromTransactions
RECURSIVE VGroupLevels(_, _)
VGroupLevels(h, currentLevel) ==
    IF Len(currentLevel) <= 1 THEN [heap |-> h, nodes |-> currentLevel]
    ELSE LET l == VGroupLevel(h, currentLevel, 0, << >>)
         IN  VGroupLevels(l.heap, l.nodes)

RECURSIVE computeHashesPostOrder_vk(_, _)
RECURSIVE VHashChildren(_, _, _, _)

VHashChildren(h, node, i, buf) ==
    IF i > Len(h[node].Children) THEN [heap |-> h, buf |-> buf]
    ELSE LET c == computeHashesPostOrder_vk(h, h[node].Children[i])
         IN  VHashChildren(c.heap, node, i + 1, buf \o c.hash)

computeHashesPostOrder_vk(h, node) ==
    IF node = NIL THEN [heap |-> h, hash |-> ZeroHash]
    ELSE IF h[node].IsLeaf
    THEN IF h[node].Hash = ZeroHash
         THEN [heap |-> [h EXCEPT ![node].Hash = h[node].TxHash], hash |-> h[node].TxHash]
         ELSE [heap |-> h, hash |-> h[node].Hash]
    ELSE LET c == VHashChildren(h, node, 1, << >>)
             d == Keccak256Hash(c.buf)
         IN  [heap |-> [c.heap EXCEPT ![node].Hash = d], hash |-> d]

NewVerkleTreeFromTransactions(txs) ==
    IF Len(txs) = 0 THEN [Root |-> NIL, K |-> VerkleK, heap |-> << >>]
    ELSE LET leaves == [i \in 1..Len(txs) |->
                           VNode(<< >>, TRUE, VerkleTxHash(txs[i]), txs[i])]
             t == VGroupLevels(leaves, [i \in 1..Len(txs) |-> i])
         IN  [Root |-> t.nodes[1], K |-> VerkleK,
              heap |-> computeHashesPostOrder_vk(t.heap, t.nodes[1]).heap]

RECURSIVE calculateRequiredHashes_vk(_, _, _)
RECURSIVE VCountChildren(_, _, _, _, _)

\* the loop over node.Children from position i on:
\* acc = [totalNeedSum, anyTrueFlag]
VCountChildren(h, node, targets, i, acc) ==
    IF i > Len(h[node].Children) THEN acc
    ELSE IF h[node].Children[i] = NIL THEN VCountChildren(h, node, targets, i + 1, acc)
    ELSE LET c == calculateRequiredHashes_vk(h, h[node].Children[i], targets)
         IN  VCountChildren(h, node, targets, i + 1,
                 IF c.flag
                 THEN [acc EXCEPT !.anyTrueFlag = TRUE,
                                  !.totalNeedSum = acc.totalNeedSum + c.need]
                 ELSE acc)

calculateRequiredHashes_vk(h, node, targets) ==
    IF node = NIL THEN [flag |-> FALSE, need |-> 0]
    ELSE IF h[node].IsLeaf
    THEN IF h[node].TxHash \in targets
         THEN [flag |-> TRUE, need |-> 1]
         ELSE [flag |-> FALSE, need |-> 0]
    ELSE LET acc == VCountChildren(h, node, targets, 1,
                        [totalNeedSum |-> 0, anyTrueFlag |-> FALSE])
         IN  IF acc.anyTrueFlag
             THEN [flag |-> TRUE, need |-> acc.totalNeedSum + 1]
             ELSE [flag |-> FALSE, need |-> 0]

\* t.GetRequiredHashes(targets), targets as the set the function makes of them
GetRequiredHashes(t, targets) ==
    IF t.Root = NIL \/ targets = {} THEN 0
    ELSE LET r == calculateRequiredHashes_vk(t.heap, t.Root, targets)
         IN  IF r.flag THEN r.need ELSE 0

GetRequiredHashesForTxs(t, targetTxs) ==
    GetRequiredHashes(t, {VerkleTxHash(tx) : tx \in targetTxs})

\* ------------------------------------------------------------ state machine
VARIABLES
    heap,       \* the nodes allocated so far
    root,       \* Trie.Root
    hist,       \* the Insert calls made: key, value and the error returned
    last,       \* the last call and what it returned
    prevHeap,   \* heap and root when the last call started
    prevRoot,
    queries,    \* number of CalculateRequiredHashes2 calls made
    pathsSet,   \* number of SetPath calls made
    codec,      \* the last codec call: its argument and what it returned
    merkle,     \* the binary Merkle tree and the last call on it
    kmerkle,    \* the K-ary Merkle tree and the last call on it
    verkle      \* the Verkle-style tree and the last call on it

vars == <<heap, root, hist, last, prevHeap, prevRoot, queries, pathsSet,
          codec, merkle, kmerkle, verkle>>

\* the variables of the trie and those of the other packages
trieVars == <<heap, root, hist, last, prevHeap, prevRoot, queries, pathsSet>>
otherVars == <<codec, merkle, kmerkle, verkle>>

\* target sets of CalculateRequiredHashes2 on a trie with call history h:
\* any of the keys Insert was called with, and at most MaxOtherTargets keys
\* more
AllTargetSets ==
    {T \in SUBSET NonEmptyKeys : Cardinality(T) <= MaxInserts + MaxOtherTargets}

TargetSets(h) ==
    {T \in AllTargetSets :
        Cardinality(T \ {h[i].key : i \in 1..Len(h)}) <= MaxOtherTargets}

NoCall == [op |-> "NewTrie", key |-> << >>, value |-> << >>, err |-> OK,
           targets |-> {}, count |-> 0, digest |-> ZeroHash, records |-> << >>]

NoCodec == [op |-> "none", key |-> << >>, nibbles |-> << >>, back |-> << >>]

NoMerkle == [op |-> "none", tree |-> << >>, tx |-> NoTx, proof |-> << >>, ok |-> FALSE]

NoKTree == [op |-> "none", leaves |-> << >>, tree |-> << >>, targets |-> {}, count |-> 0]

\* NewTrie()
Init ==
    /\ heap = << >>
    /\ root = NIL
    /\ hist = << >>
    /\ last = NoCall
    /\ prevHeap = << >>
    /\ prevRoot = NIL
    /\ queries = 0
    /\ pathsSet = 0
    /\ codec = NoCodec
    /\ merkle = NoMerkle
    /\ kmerkle = NoKTree
    /\ verkle = NoKTree

\* the trie a builder returns becomes the trie of the state
Installed(b, op, records) ==
    /\ heap' = b.heap
    /\ root' = b.root
    /\ hist' = b.hist
    /\ last' = [NoCall EXCEPT !.op = op, !.records = records, !.digest = b.digest]

\* t.Insert(key, value) on the trie of the state
InsertCall(key, value) ==
    /\ LET r == Insert(heap, root, key, value)
       IN  /\ heap' = r.heap
           /\ root' = r.root
           /\ hist' = Append(hist, [key |-> key, value |-> value, err |-> r.err])
           /\ last' = [NoCall EXCEPT !.op = "Insert", !.key = key,
                                     !.value = value, !.err = r.err]
    /\ prevHeap' = heap
    /\ prevRoot' = root
    /\ UNCHANGED <<queries, pathsSet, otherVars>>

DoInsert(key, value) ==
    /\ Len(hist) < MaxInserts
    /\ InsertCall(key, value)

\* t.ComputeHash(t.Root)
DoComputeHash ==
    /\ LET r == ComputeHash(heap, root)
       IN  /\ heap' = r.heap
           /\ last' = [NoCall EXCEPT !.op = "ComputeHash", !.digest = r.hash]
    /\ prevHeap' = heap
    /\ prevRoot' = root
    /\ UNCHANGED <<root, hist, queries, pathsSet, otherVars>>

\* n.SetPath(path) on a node of the trie: FullNode, ShortNode and HashNode
\* all store the argument in Path
DoSetPath(n, path) ==
    /\ pathsSet < MaxSetPaths
    /\ pathsSet' = pathsSet + 1
    /\ heap' = [heap EXCEPT ![n].Path = path]
    /\ last' = [NoCall EXCEPT !.op = "SetPath"]
    /\ prevHeap' = heap
    /\ prevRoot' = root
    /\ UNCHANGED <<root, hist, queries, otherVars>>

DoCalculateRequiredHashes2(targets) ==
    /\ queries' = queries + 1
    /\ last' = [NoCall EXCEPT !.op = "CalculateRequiredHashes2", !.targets = targets,
                   !.count = CalculateRequiredHashes2(heap, root, targets)]
    /\ prevHeap' = heap
    /\ prevRoot' = root
    /\ UNCHANGED <<heap, root, hist, pathsSet, otherVars>>

\* BuildMPTTree(NewTrie(), transactions)
DoBuildMPTTree(transactions) ==
    /\ last.op = "NewTrie"
    /\ Installed(BuildMPTTree(heap, root, transactions), "BuildMPTTree",
                 TxRecords(transactions))
    /\ prevHeap' = heap
    /\ prevRoot' = root
    /\ UNCHANGED <<queries, pathsSet, otherVars>>

\* BuildCMPTTree(NewTrie(), clusters)
DoBuildCMPTTree(entries) ==
    /\ last.op = "NewTrie"
    /\ Installed(BuildCMPTTree(heap, root, entries), "BuildCMPTTree", entries)
    /\ prevHeap' = heap
    /\ prevRoot' = root
    /\ UNCHANGED <<queries, pathsSet, otherVars>>

InsertStep == \E key \in Keys, value \in Values : DoInsert(key, value)
CalculateStep ==
    /\ queries < MaxQueries
    /\ \E targets \in TargetSets(hist) : DoCalculateRequiredHashes2(targets)

\* inserts and hashing
Next == InsertStep \/ DoComputeHash
Spec == Init /\ [][Next]_vars

\* inserts and proof-cost queries; calculateHashes reads no Value, so one
\* payload does
InsertCostStep == \E key \in Keys : DoInsert(key, CostValue)

NextCost == InsertCostStep \/ CalculateStep
SpecCost == Init /\ [][NextCost]_vars

\* longer runs of Inserts, of one-byte keys and one payload, with path
\* updates in between
ByteKeys == {k \in Keys : Len(k) = 1}
DeepInsertStep ==
    /\ Len(hist) < MaxDeepInserts
    /\ \E key \in ByteKeys : InsertCall(key, CostValue)

\* SetPath on any node of the trie, with a path of one or two bytes
SetPathArgs == {<<7>>, <<9>>, <<7, 7>>}
SetPathStep ==
    \E n \in Reach(heap, root), path \in SetPathArgs : DoSetPath(n, path)

NextDeep == DeepInsertStep \/ SetPathStep
SpecDeep == Init /\ [][NextDeep]_vars

\* Inserts of keys made of the bytes 0x0F, 0xF0 and 0xFF, whose nibbles are
\* the lowest and the highest
EdgeBytes == {15, 240, 255}
EdgeKeys == {<<a>> : a \in EdgeBytes} \cup {<<a, b>> : a, b \in EdgeBytes}
EdgeInsertStep == \E key \in EdgeKeys : DoInsert(key, CostValue)

NextEdge == EdgeInsertStep
SpecEdge == Init /\ [][NextEdge]_vars

\* the batch builders on a new trie
TransactionLists == UNION {[1..n -> Transactions] : n \in 0..MaxInserts}
ClusterLists ==
    {e \in UNION {[1..n -> [key : Keys, value : Values]] : n \in 0..MaxInserts} :
        \A i, j \in 1..Len(e) : e[i].key = e[j].key => i = j}

BuildMPTStep == \E transactions \in TransactionLists : DoBuildMPTTree(transactions)
BuildCMPTStep == \E entries \in ClusterLists : DoBuildCMPTTree(entries)

NextBuild == BuildMPTStep \/ BuildCMPTStep
SpecBuild == Init /\ [][NextBuild]_vars

\* inserts of the one-byte keys 0x0A, 0x0B, 0x1C and proof-cost queries for
\* sets of them
ScenarioKeys == {<<10>>, <<11>>, <<28>>}
ScenarioInsertStep == \E key \in ScenarioKeys : DoInsert(key, CostValue)
ScenarioCalculateStep ==
    /\ queries < MaxQueries
    /\ \E targets \in SUBSET ScenarioKeys : DoCalculateRequiredHashes2(targets)

NextScenario == ScenarioInsertStep \/ ScenarioCalculateStep
SpecScenario == Init /\ [][NextScenario]_vars

\* the key codec: keyToNibbles(key), then nibblesToKey of what it returned
DoKeyToNibbles(key) ==
    /\ codec' = [NoCodec EXCEPT !.op = "keyToNibbles", !.key = key,
                                !.nibbles = keyToNibbles(key)]
    /\ UNCHANGED <<trieVars, merkle, kmerkle, verkle>>

DoNibblesToKey ==
    /\ codec.op = "keyToNibbles"
    /\ codec' = [codec EXCEPT !.op = "nibblesToKey", !.back = nibblesToKey(codec.nibbles)]
    /\ UNCHANGED <<trieVars, merkle, kmerkle, verkle>>

KeyToNibblesStep == \E key \in CodecKeys(MaxCodecLen) : DoKeyToNibbles(key)

NextCodec == KeyToNibblesStep \/ DoNibblesToKey
SpecCodec == Init /\ [][NextCodec]_vars

\* the binary Merkle tree: NewMerkleTree on a non-empty list of distinct
\* transactions, GetProof for one of them, VerifyProof of that proof
MerkleLists ==
    {l \in UNION {[1..n -> MerkleTxs] : n \in 1..MaxMerkleTxs} :
        \A i, j \in 1..Len(l) : l[i] = l[j] => i = j}

DoNewMerkleTree(transactions) ==
    /\ merkle.op = "none"
    /\ merkle' = [NoMerkle EXCEPT !.op = "NewMerkleTree",
                                  !.tree = NewMerkleTree(transactions)]
    /\ UNCHANGED <<trieVars, codec, kmerkle, verkle>>

DoGetProof(tx) ==
    /\ merkle.op = "NewMerkleTree"
    /\ merkle' = [merkle EXCEPT !.op = "GetProof", !.tx = tx,
                                !.proof = GetProof(merkle.tree, tx)]
    /\ UNCHANGED <<trieVars, codec, kmerkle, verkle>>

DoVerifyProof ==
    /\ merkle.op = "GetProof"
    /\ merkle' = [merkle EXCEPT !.op = "VerifyProof",
                                !.ok = VerifyProof(merkle.tree, merkle.tx, merkle.proof)]
    /\ UNCHANGED <<trieVars, codec, kmerkle, verkle>>

NewMerkleTreeStep == \E transactions \in MerkleLists : DoNewMerkleTree(transactions)
GetProofStep ==
    /\ merkle.op = "NewMerkleTree"
    /\ \E tx \in {merkle.tree.Transactions[i] : i \in 1..Len(merkle.tree.Transactions)} :
          DoGetProof(tx)

NextMerkle == NewMerkleTreeStep \/ GetProofStep \/ DoVerifyProof
SpecMerkle == Init /\ [][NextMerkle]_vars

\* target sets of a proof-cost query on a tree with these leaf hashes: few
\* of the leaves, or all but few
KTargetSets(leaves) ==
    LET L == {leaves[i] : i \in 1..Len(leaves)}
        few == {T \in SUBSET L : Cardinality(T) <= MaxKTargets}
    IN  few \cup {L \ T : T \in few}

\* the K-ary Merkle tree: NewFromHashes on distinct leaf hashes, then
\* RequiredHashCount
DoNewFromHashes(leafHashes) ==
    /\ kmerkle.op = "none"
    /\ kmerkle' = [NoKTree EXCEPT !.op = "NewFromHashes", !.leaves = leafHashes,
                                  !.tree = NewFromHashes(leafHashes)]
    /\ UNCHANGED <<trieVars, codec, merkle, verkle>>

DoRequiredHashCount(targets) ==
    /\ kmerkle' = [kmerkle EXCEPT !.op = "RequiredHashCount", !.targets = targets,
                                  !.count = RequiredHashCount(kmerkle.tree, targets)]
    /\ UNCHANGED <<trieVars, codec, merkle, verkle>>

NewFromHashesStep == \E n \in 0..MaxKLeaves : DoNewFromHashes(KLeafHashes(n))
RequiredHashCountStep ==
    /\ kmerkle.op = "NewFromHashes"
    /\ \E targets \in KTargetSets(kmerkle.leaves) : DoRequiredHashCount(targets)

NextKMerkle == NewFromHashesStep \/ RequiredHashCountStep
SpecKMerkle == Init /\ [][NextKMerkle]_vars

\* the Verkle-style tree: NewVerkleTreeFromTransactions on distinct
\* transactions, then GetRequiredHashesForTxs
DoNewVerkleTreeFromTransactions(txs) ==
    /\ verkle.op = "none"
    /\ verkle' = [NoKTree EXCEPT !.op = "NewVerkleTreeFromTransactions", !.leaves = txs,
                                 !.tree = NewVerkleTreeFromTransactions(txs)]
    /\ UNCHANGED <<trieVars, codec, merkle, kmerkle>>

DoGetRequiredHashesForTxs(targetTxs) ==
    /\ verkle' = [verkle EXCEPT !.op = "GetRequiredHashesForTxs", !.targets = targetTxs,
                                !.count = GetRequiredHashesForTxs(verkle.tree, targetTxs)]
    /\ UNCHANGED <<trieVars, codec, merkle, kmerkle>>

NewVerkleTreeStep ==
    \E n \in 0..MaxKLeaves : DoNewVerkleTreeFromTransactions(VerkleTxs(n))
GetRequiredHashesStep ==
    /\ verkle.op = "NewVerkleTreeFromTransactions"
    /\ \E targetTxs \in KTargetSets(verkle.leaves) : DoGetRequiredHashesForTxs(targetTxs)

NextVerkle == NewVerkleTreeStep \/ GetRequiredHashesStep
SpecVerkle == Init /\ [][NextVerkle]_vars

\* ------------------------------------------------------ what the claims read
LeafNodes(h, rt) == {n \in Reach(h, rt) : h[n].kind = "HashNode"}

\* the fields of a node the trie is made of: suffix, segment / full key,
\* value, child links (Path is bookkeeping, Hash a cache)
Content(node) ==
    [kind |-> node.kind, Pre |-> node.Pre, Key |-> node.Key, Value |-> node.Value,
     Val |-> node.Val, Children |-> node.Children]

Succeeded(h) == {i \in 1..Len(h) : h[i].err = OK}
StoredKeys(h) == {h[i].key : i \in Succeeded(h)}
AllSucceeded(h) == Succeeded(h) = 1..Len(h)
DistinctKeys(h) == \A i, j \in 1..Len(h) : h[i].key = h[j].key => i = j
Calls(h) == [i \in 1..Len(h) |-> [key |-> h[i].key, value |-> h[i].value]]
Orders(n) == {p \in [1..n -> 1..n] : \A i, j \in 1..n : p[i] = p[j] => i = j}
Reorder(calls, p) == [i \in 1..Len(calls) |-> calls[p[i]]]
FreshDigest(calls) == LET t == Replay(calls) IN RootDigest(t.heap, t.root)

\* ------------------------------------------------------------------ claims

\* C1: inserting the same pairs (distinct non-empty keys) into an empty trie
\* in any two orders gives the same root digest.
OrderIndependence ==
    (DistinctKeys(hist) /\ << >> \notin StoredKeys(hist) /\ AllSucceeded(hist))
        => \A p \in Orders(Len(hist)) :
               FreshDigest(Reorder(Calls(hist), p)) = FreshDigest(Calls(hist))

\* C2: on a trie built by successful Inserts of distinct keys,
\* CalculateRequiredHashes2 of the set of all inserted keys returns 0.
AllKeysCostZero ==
    (/\ last.op = "CalculateRequiredHashes2"
     /\ AllSucceeded(hist) /\ DistinctKeys(hist)
     /\ last.targets = StoredKeys(hist))
        => last.count = 0

\* C3: on a trie of N >= 2 successfully inserted distinct keys of equal
\* length, CalculateRequiredHashes2 of a non-empty proper subset of the keys
\* is strictly positive.
ProperSubsetCostPositive ==
    (/\ last.op = "CalculateRequiredHashes2"
     /\ AllSucceeded(hist) /\ DistinctKeys(hist) /\ Len(hist) >= 2
     /\ \A i, j \in 1..Len(hist) : Len(hist[i].key) = Len(hist[j].key)
     /\ last.targets # {}
     /\ last.targets \subseteq StoredKeys(hist)
     /\ last.targets # StoredKeys(hist))
        => last.count > 0

\* C4: an Insert that returns an error leaves the root and the suffix,
\* segment, children and value of every node reachable from it as they were.
FailedInsertTouchesNothing ==
    (last.op = "Insert" /\ last.err # OK)
        => /\ root = prevRoot
           /\ \A n \in Reach(prevHeap, prevRoot) : Content(heap[n]) = Content(prevHeap[n])

\* C5: an Insert of a key that an earlier Insert stored returns an error and
\* adds no leaf.
DuplicateRejected ==
    (/\ last.op = "Insert"
     /\ \E i \in 1..(Len(hist) - 1) : hist[i].key = last.key /\ hist[i].err = OK)
        => /\ last.err # OK
           /\ Cardinality(LeafNodes(heap, root)) = Cardinality(LeafNodes(prevHeap, prevRoot))

\* C6: after successful Inserts with ComputeHash calls in between, the digest
\* the last ComputeHash returns is the digest of a fresh trie that received
\* the same Inserts and was hashed once.
ComputeHashPure ==
    (last.op = "ComputeHash" /\ AllSucceeded(hist))
        => last.digest = FreshDigest(Calls(hist))

\* C7: a successful Insert changes no field of a node that was reachable from
\* the root before the call, so the digest of the previous root is unchanged.
SuccessfulInsertImmutable ==
    (last.op = "Insert" /\ last.err = OK)
        => /\ \A n \in Reach(prevHeap, prevRoot) : Content(heap[n]) = Content(prevHeap[n])
           /\ RootDigest(heap, prevRoot) = RootDigest(prevHeap, prevRoot)

\* C8: on a trie holding N >= 1 keys (N Insert calls returned success) the
\* count is never negative and at most N - 1, for a single inserted key and
\* for any other target set.
CostBelowKeyCount ==
    (last.op = "CalculateRequiredHashes2" /\ Succeeded(hist) # {})
        => /\ last.count >= 0
           /\ last.count <= Cardinality(Succeeded(hist)) - 1

\* a single inserted key of a trie of MaxInserts distinct keys costs the most
\* it may
CostBelowKeyCountWitness ==
    /\ last.op = "CalculateRequiredHashes2"
    /\ AllSucceeded(hist) /\ DistinctKeys(hist) /\ Len(hist) = MaxInserts
    /\ \E k \in StoredKeys(hist) : last.targets = {k}
    /\ last.count = MaxInserts - 1

\* C9: the count is 0 on the empty trie, for the empty target set and when
\* no target is the full key of a leaf, and target keys that were never
\* inserted do not change the count of the inserted ones.
AbsentTargetsCostNothing ==
    last.op = "CalculateRequiredHashes2"
        => /\ (root = NIL \/ last.targets = {}) => last.count = 0
           /\ (\A n \in LeafNodes(heap, root) : heap[n].Key \notin last.targets)
                  => last.count = 0
           /\ last.count = CalculateRequiredHashes2(heap, root,
                               last.targets \cap StoredKeys(hist))

\* C10: Insert with an empty key returns an error and leaves the root and
\* every node as they were.
EmptyKeyRejected ==
    (last.op = "Insert" /\ last.key = << >>)
        => /\ last.err = ErrKeyEmpty
           /\ root = prevRoot
           /\ heap = prevHeap

\* the empty key was refused by a trie that holds two keys under a branch
EmptyKeyRejectedWitness ==
    /\ last.op = "Insert" /\ last.key = << >> /\ last.err # OK
    /\ root # NIL /\ heap[root].kind = "FullNode"
    /\ Cardinality(LeafNodes(heap, root)) >= 2

\* C11: BuildMPTTree and BuildCMPTTree try every record in order although
\* some Insert returned an error; the leaves of the built trie are, value for
\* value, the records whose Insert succeeded; the paths are repaired and
\* every reachable node is hashed when the builder returns.
BuilderSkipsFailures ==
    (last.op \in {"BuildMPTTree", "BuildCMPTTree"})
        => /\ Calls(hist) = last.records
           /\ Cardinality(LeafNodes(heap, root)) = Cardinality(Succeeded(hist))
           /\ \A i \in Succeeded(hist) :
                 Cardinality({n \in LeafNodes(heap, root) : heap[n].Value = hist[i].value})
                     = Cardinality({j \in Succeeded(hist) : hist[j].value = hist[i].value})
           /\ \A n \in Reach(heap, root) : heap[n].Hash # ZeroHash
           /\ last.digest = (IF root = NIL THEN ZeroHash ELSE heap[root].Hash)
           /\ root # NIL =>
                 heap[root].Path = (IF heap[root].kind = "HashNode"
                                    THEN heap[root].Key ELSE << >>)

\* a builder returned after a record failed and a later one was stored
BuilderSkipsFailuresWitness ==
    /\ last.op \in {"BuildMPTTree", "BuildCMPTTree"}
    /\ \E i, j \in 1..Len(hist) : i < j /\ hist[i].err # OK /\ hist[j].err = OK
    /\ Cardinality(LeafNodes(heap, root)) >= 2

\* C12: for the Insert calls made so far the clustered trie returns the same
\* errors and has the same nodes, root and digests as the plain trie, and its
\* CalculateRequiredHashes2 of the nibble-encoded targets returns the count
\* the plain trie returned for the byte targets.
EnginesAgree ==
    LET c == cmpt_Replay(Calls(hist))
    IN  /\ c.hist = hist
        /\ c.heap = heap
        /\ c.root = root
        /\ cmpt_ComputeHash(c.heap, c.root) = ComputeHash(heap, root)
        /\ last.op = "CalculateRequiredHashes2"
              => cmpt_CalculateRequiredHashes2(c.heap, c.root,
                     {keyToNibbles(k) : k \in last.targets}) = last.count

\* both tries refused one call, hold two leaves or more and charge for a
\* target
EnginesAgreeWitness ==
    /\ last.op = "CalculateRequiredHashes2" /\ last.count > 0
    /\ \E i \in 1..Len(hist) : hist[i].err # OK
    /\ Cardinality(LeafNodes(heap, root)) >= 2
    /\ cmpt_Replay(Calls(hist)).heap = heap

\* C13: keyToNibbles(b) has 2 * len(b) elements, all in 0..15, and
\* nibblesToKey of it is b.
CodecRoundTrip ==
    /\ codec.op # "none"
          => /\ Len(codec.nibbles) = 2 * Len(codec.key)
             /\ \A i \in 1..Len(codec.nibbles) : codec.nibbles[i] \in 0..(NibbleBase - 1)
    /\ codec.op = "nibblesToKey" => codec.back = codec.key

\* a key of MaxCodecLen bytes with 0xAB and 0xFF among them came back
CodecRoundTripWitness ==
    /\ codec.op = "nibblesToKey"
    /\ Len(codec.key) = MaxCodecLen
    /\ \E i, j \in 1..Len(codec.key) : codec.key[i] = 171 /\ codec.key[j] = 255
    /\ codec.back = codec.key

\* C14: after Insert of 0x0A, 0x0B, 0x1C in this order into an empty trie,
\* CalculateRequiredHashes2({0x0A}) returns 2.
ScenarioCostIsTwo ==
    (/\ last.op = "CalculateRequiredHashes2"
     /\ [i \in 1..Len(hist) |-> hist[i].key] = <<<<10>>, <<11>>, <<28>>>>
     /\ last.targets = {<<10>>})
        => last.count = 2

\* C15: VerifyProof(tx, GetProof(tx)) is true for every transaction of a
\* tree built by NewMerkleTree from distinct transactions.
MerkleProofRoundTrip ==
    merkle.op = "VerifyProof" => merkle.ok

\* C16: on a tree of N >= 2 distinct leaf hashes RequiredHashCount(T) is 0
\* for the empty T and for T all leaves, and above 0 and below N for every
\* other set T of leaves.
KaryCostBounds ==
    (kmerkle.op = "RequiredHashCount" /\ Len(kmerkle.leaves) >= 2)
        => LET L == {kmerkle.leaves[i] : i \in 1..Len(kmerkle.leaves)}
           IN  IF kmerkle.targets = {} \/ kmerkle.targets = L
               THEN kmerkle.count = 0
               ELSE kmerkle.count > 0 /\ kmerkle.count < Len(kmerkle.leaves)

\* a tree of more than K leaves, so of two levels, was asked for one leaf of
\* its full group
KaryCostBoundsWitness ==
    /\ kmerkle.op = "RequiredHashCount"
    /\ Len(kmerkle.leaves) > K
    /\ kmerkle.targets = {kmerkle.leaves[1]}
    /\ kmerkle.count = K

\* C17: on a tree of N distinct transactions GetRequiredHashesForTxs(T) is
\* above 0 and below N for every non-empty set T of its transactions.
VerkleCostBelowN ==
    (verkle.op = "GetRequiredHashesForTxs" /\ verkle.targets # {})
        => verkle.count > 0 /\ verkle.count < Len(verkle.leaves)

\* the nibbles that lead to each leaf below n: the route to n, the segment of
\* every ShortNode and the slot of every FullNode passed (the value slot adds
\* no nibble), then the suffix of the leaf
RECURSIVE Addresses(_, _, _)
Addresses(h, n, route) ==
    IF n = NIL THEN {}
    ELSE IF h[n].kind = "HashNode" THEN {route \o h[n].Pre}
    ELSE IF h[n].kind = "ShortNode"
    THEN Addresses(h, h[n].Val, route \o keyToNibbles(h[n].Key))
    ELSE UNION {Addresses(h, h[n].Children[i + 1],
                          IF i = ValueSlot THEN route ELSE Append(route, i)) :
                   i \in 0..ValueSlot}

\* C18: after successful Inserts the route to every leaf followed by its
\* suffix is the nibble encoding of an inserted key, and every inserted key
\* is the address of a leaf.
LeafAddressIsKey ==
    AllSucceeded(hist)
        => Addresses(heap, root, << >>) = {keyToNibbles(k) : k \in StoredKeys(hist)}

\* C19: after successful Inserts of distinct keys the Key fields of the
\* reachable leaves are the inserted keys.
LeafCarriesFullKey ==
    (AllSucceeded(hist) /\ DistinctKeys(hist))
        => {heap[n].Key : n \in LeafNodes(heap, root)} = StoredKeys(hist)

\* the cost function as specified: a leaf hits when its full key is a target;
\* a ShortNode passes its child's result on; a FullNode looks at all 17 slots
RECURSIVE cost(_, _, _)
cost(h, n, targets) ==
    IF n = NIL THEN [flag |-> FALSE, need |-> 0]
    ELSE IF h[n].kind = "HashNode"
    THEN [flag |-> keyToNibbles(h[n].Key) \in targets, need |-> 0]
    ELSE IF h[n].kind = "ShortNode" THEN cost(h, h[n].Val, targets)
    ELSE LET slots == {i \in 0..ValueSlot : h[n].Children[i + 1] # NIL}
             hit == {i \in slots : cost(h, h[n].Children[i + 1], targets).flag}
             RECURSIVE Sum(_)
             Sum(S) == IF S = {} THEN 0
                       ELSE LET i == CHOOSE x \in S : TRUE
                            IN  cost(h, h[n].Children[i + 1], targets).need + Sum(S \ {i})
         IN  IF hit = {} THEN [flag |-> FALSE, need |-> 0]
             ELSE [flag |-> TRUE, need |-> Sum(hit) + Cardinality(slots \ hit)]

\* C20: on every reachable trie and for every target set calculateHashes
\* returns what the specified cost function returns.
CalculateHashesIsCost ==
    last.op = "CalculateRequiredHashes2"
        => LET targets == {keyToNibbles(k) : k \in last.targets}
           IN  calculateHashes(heap, root, targets) = cost(heap, root, targets)

\* C21: when an Insert splits the root on a partial match, the new outer
\* ShortNode reads back the matched nibbles exactly and the old node keeps
\* exactly the rest: a root leaf with suffix P and key nibbles K2 matching on
\* l, 0 < l < len(P), gives segment K2[:l] over the leaf with suffix P[l:];
\* a root ShortNode with segment S matching the key on m, 0 < m < len(S) and
\* m < len(key), gives segment S[:m] over a branch holding the old node with
\* segment S[m:].
SplitKeepsSegments ==
    (last.op = "Insert" /\ prevRoot # NIL)
        => LET key == keyToNibbles(last.key)
               old == prevHeap[prevRoot]
               s == New(prevHeap)
               l == prefixLen(old.Pre, key)
               S == keyToNibbles(old.Key)
               m == prefixLen(key, S)
           IN  /\ (old.kind = "HashNode" /\ 0 < l /\ l < Len(old.Pre))
                     => /\ heap[s].kind = "ShortNode"
                        /\ heap[s].Val = prevRoot
                        /\ keyToNibbles(heap[s].Key) = Head0(key, l)
                        /\ heap[prevRoot].Pre = Tail0(old.Pre, l)
               /\ (old.kind = "ShortNode" /\ 0 < m /\ m < Len(S) /\ m < Len(key))
                     => /\ last.err = OK
                        /\ heap[root].kind = "ShortNode"
                        /\ keyToNibbles(heap[root].Key) = Head0(key, m)
                        /\ keyToNibbles(heap[prevRoot].Key) = Tail0(S, m)

\* C22: after any sequence of Inserts, failed ones included, every ShortNode
\* reachable from the root has a child and a non-empty segment, and every
\* reachable FullNode has at least one of its 17 slots filled.
NodeShape ==
    \A n \in Reach(heap, root) :
        /\ heap[n].kind = "ShortNode"
              => heap[n].Val # NIL /\ keyToNibbles(heap[n].Key) # << >>
        /\ heap[n].kind = "FullNode"
              => \E i \in 0..ValueSlot : heap[n].Children[i + 1] # NIL

\* C23: ComputeHash leaves the cached digest of every node it visits as it
\* was when that digest was already set, whatever the kind of the node.
DigestMemoized ==
    last.op = "ComputeHash"
        => \A n \in Reach(prevHeap, prevRoot) :
               prevHeap[n].Hash # ZeroHash => heap[n].Hash = prevHeap[n].Hash

\* the digests as specified, without a cache: a leaf hashes suffix and value,
\* a ShortNode its segment nibbles and the child digest, a FullNode the slot
\* index and child digest of every filled slot from 0 to 16
RECURSIVE RefHash(_, _)
RECURSIVE RefSlots(_, _, _)
RefSlots(h, n, i) ==
    IF i > ValueSlot THEN << >>
    ELSE (IF h[n].Children[i + 1] = NIL THEN << >>
          ELSE <<i>> \o RefHash(h, h[n].Children[i + 1]))
         \o RefSlots(h, n, i + 1)

RefHash(h, n) ==
    IF n = NIL THEN ZeroHash
    ELSE IF h[n].kind = "HashNode" THEN Keccak256Hash(h[n].Pre \o h[n].Value)
    ELSE IF h[n].kind = "ShortNode"
    THEN Keccak256Hash(keyToNibbles(h[n].Key) \o RefHash(h, h[n].Val))
    ELSE Keccak256Hash(RefSlots(h, n, 0))

FilledSlots(node) == {i \in 0..ValueSlot : node.Children[i + 1] # NIL}
Uncached(h, rt) == \A n \in Reach(h, rt) : h[n].Hash = ZeroHash

\* C24: on a trie without cached digests ComputeHash returns and stores, for
\* every node, the digest as specified (leaf: suffix ++ value; ShortNode:
\* segment nibbles ++ child digest; FullNode: slot index ++ child digest over
\* the filled slots in ascending order), and two FullNodes that hold the same
\* children in different slots get different digests.
HashIsReference ==
    (last.op = "ComputeHash" /\ Uncached(prevHeap, prevRoot))
        => /\ last.digest = RefHash(prevHeap, prevRoot)
           /\ \A n \in Reach(heap, root) : heap[n].Hash = RefHash(prevHeap, n)
           /\ \A a, b \in Reach(heap, root) :
                 (/\ heap[a].kind = "FullNode" /\ heap[b].kind = "FullNode"
                  /\ FilledSlots(heap[a]) # FilledSlots(heap[b]))
                     => heap[a].Hash # heap[b].Hash

\* a trie of a ShortNode, two FullNodes filled in different slots, one of
\* them in its value slot, and leaves was hashed for the first time
HashIsReferenceWitness ==
    /\ last.op = "ComputeHash" /\ Uncached(prevHeap, prevRoot)
    /\ \E s, a, b \in Reach(heap, root) :
          /\ heap[s].kind = "ShortNode"
          /\ heap[a].kind = "FullNode" /\ heap[b].kind = "FullNode"
          /\ FilledSlots(heap[a]) # FilledSlots(heap[b])
          /\ ValueSlot \in FilledSlots(heap[a])
          /\ Cardinality(FilledSlots(heap[a])) >= 2
    /\ last.digest = heap[root].Hash

\* where the nibbles of a key lead from n without changing anything: through
\* the slots of FullNodes and the whole segments of ShortNodes, down to a nil
\* link, a leaf, a FullNode with no key left, or out of a ShortNode
RECURSIVE Lands(_, _, _)
Lands(h, n, key) ==
    IF n = NIL THEN [at |-> "nil", node |-> n, rest |-> key]
    ELSE IF h[n].kind = "HashNode" THEN [at |-> "leaf", node |-> n, rest |-> key]
    ELSE IF h[n].kind = "FullNode"
    THEN IF key = << >> THEN [at |-> "branch", node |-> n, rest |-> key]
         ELSE Lands(h, h[n].Children[key[1] + 1], Tail(key))
    ELSE LET S == keyToNibbles(h[n].Key)
         IN  IF prefixLen(key, S) = Len(S)
             THEN Lands(h, h[n].Val, Tail0(key, Len(S)))
             ELSE [at |-> "segment", node |-> n, rest |-> key]

\* C25: an Insert whose key ends exactly at an existing FullNode returns the
\* "empty key" error; the root and the slots of that FullNode, its value slot
\* included, stay as they were.
EmptyKeyAtBranch ==
    (last.op = "Insert" /\ last.key # << >>)
        => LET to == Lands(prevHeap, prevRoot, keyToNibbles(last.key))
           IN  to.at = "branch"
                  => /\ last.err # OK /\ last.err = ErrEmptyKey
                     /\ root = prevRoot
                     /\ heap[to.node].Children = prevHeap[to.node].Children

\* a key that ends at a FullNode below a ShortNode was refused
EmptyKeyAtBranchWitness ==
    /\ last.op = "Insert" /\ last.err = ErrEmptyKey
    /\ prevRoot # NIL /\ prevHeap[prevRoot].kind = "ShortNode"
    /\ Lands(prevHeap, prevRoot, keyToNibbles(last.key)).at = "branch"
    /\ heap[Lands(prevHeap, prevRoot, keyToNibbles(last.key)).node].Children[ValueSlot + 1] = NIL

\* C26: no Insert returns one of the two nibble errors, and every nibble of
\* a leaf suffix and of a ShortNode segment, in any node the Inserts made, is
\* in 0..15.
NoCorruptKey ==
    /\ \A i \in 1..Len(hist) : hist[i].err \notin {ErrNibble, ErrNibbleIndex}
    /\ \A n \in 1..Len(heap) :
          /\ \A j \in 1..Len(heap[n].Pre) : heap[n].Pre[j] \in 0..(NibbleBase - 1)
          /\ \A j \in 1..Len(keyToNibbles(heap[n].Key)) :
                keyToNibbles(heap[n].Key)[j] \in 0..(NibbleBase - 1)

\* MaxInserts keys are stored below a ShortNode and a FullNode with slot 15
\* filled, in a leaf whose suffix ends with nibble 15
NoCorruptKeyWitness ==
    /\ Len(hist) = MaxInserts /\ AllSucceeded(hist)
    /\ heap[root].kind = "ShortNode"
    /\ \E n \in Reach(heap, root) :
          heap[n].kind = "FullNode" /\ heap[n].Children[NibbleBase] # NIL
    /\ \E n \in LeafNodes(heap, root) :
          heap[n].Pre # << >> /\ heap[n].Pre[Len(heap[n].Pre)] = NibbleBase - 1

\* C27: the Verkle-style tree built from transactions with the leaf hashes of
\* the K-ary Merkle tree, in the same order, returns from GetRequiredHashes
\* for every target set the count RequiredHashCount returns.
UniformLeafCost ==
    kmerkle.op = "RequiredHashCount"
        => LET txs == VerkleTxs(Len(kmerkle.leaves))
           IN  [i \in 1..Len(txs) |-> VerkleTxHash(txs[i])] = kmerkle.leaves
                  => GetRequiredHashes(NewVerkleTreeFromTransactions(txs),
                                       kmerkle.targets) = kmerkle.count

\* C28: when the keys of the Insert calls made on the new trie are distinct,
\* non-empty and of one byte length, every one of the calls returned success.
FreshKeysAccepted ==
    (/\ DistinctKeys(hist)
     /\ \A i, j \in 1..Len(hist) :
           hist[i].key # << >> /\ Len(hist[i].key) = Len(hist[j].key))
        => AllSucceeded(hist)

\* C29: an Insert returns "node exists" only for a key that an earlier Insert
\* stored.
NodeExistsOnlyForDuplicates ==
    \A i \in 1..Len(hist) :
        hist[i].err = ErrNodeExists
            => \E j \in 1..(i - 1) : hist[j].key = hist[i].key /\ hist[j].err = OK

\* the leaves below rt that carry the payload v
LeavesOf(h, rt, v) == {n \in LeafNodes(h, rt) : h[n].Value = v}

\* C30: the number of leaves reachable from the root is the number of Insert
\* calls that returned success; an Insert that succeeded added one leaf and
\* removed none (every payload is on at least as many leaves as before), an
\* Insert that failed added none.
LeafConservation ==
    /\ Cardinality(LeafNodes(heap, root)) = Cardinality(Succeeded(hist))
    /\ last.op = "Insert"
          => /\ \A v \in Values :
                   Cardinality(LeavesOf(heap, root, v))
                       >= Cardinality(LeavesOf(prevHeap, prevRoot, v))
             /\ Cardinality(LeafNodes(heap, root)) =
                   Cardinality(LeafNodes(prevHeap, prevRoot))
                       + (IF last.err = OK THEN 1 ELSE 0)

\* an Insert failed inside a trie of two leaves after changing nodes on its
\* way, and the two leaves of the two earlier Inserts are still there
LeafConservationWitness ==
    /\ last.op = "Insert" /\ last.err # OK /\ last.key # << >>
    /\ heap # prevHeap
    /\ Cardinality(Succeeded(hist)) = 2
    /\ Cardinality(LeafNodes(heap, root)) = 2

=============================================================================
